---------------------------- MODULE Spec2Model ----------------------------
(***************************************************************************)
(* The OTP endpoints of main.py: send_otp (issue a passcode for a phone)   *)
(* and verify_otp (check it), over the process-wide dict otp_store.         *)
(*                                                                         *)
(* Both handlers are coroutines on one event loop.  verify_otp has no      *)
(* await, so it runs as one step.  send_otp runs as one step up to the     *)
(* await on the Twilio POST (line 120) and resumes in a second step when   *)
(* the POST has answered or raised.                                        *)
(*                                                                         *)
(* Strings that the code builds or compares character by character (codes) *)
(* are sequences of one-character strings; the other strings are TLA+      *)
(* strings.  A Python dict is a function whose DOMAIN is its key set.      *)
(***************************************************************************)
EXTENDS Integers, Sequences, FiniteSets, Bags

\* --------------------------------------------------------------- bounds
\* time.time() is followed up to this many seconds after start
MaxTime == 301
\* at most this many send_otp coroutines wait on the Twilio POST at once
MaxInflight == 2

\* ---------------------------------------------------------- input sets
\* request.phone values: the empty string and two phone numbers
Phones == {"", "+15550001", "+15550002"}

\* values random.randint(0, 999999) returns in the model
RandDraws == {0, 42017}

\* mutant of RandRange: random.randrange(0, 999999), the upper end left out
RandRange_Exclusive == 0 .. 999998

\* the values random.randint(0, 999999) can return: both ends included
RandRange == 0 .. 999999

\* values of random.randint followed when only code generation is looked
\* at: both ends of the range and the first number of every length
GenDraws == {n \in {0, 7, 10, 100, 1000, 42017, 100000, 999999} : n \in RandRange}

\* os.getenv(...) for a variable that is not set
None == "None"

\* what the environment can hold for each Twilio variable
AccountValues == {None, "AC0001"}
TokenValues == {"", "tok0001"}
FromValues == {None, "+15005550006"}

\* ------------------------------------------------------ pure functions
DigitChars == <<"0", "1", "2", "3", "4", "5", "6", "7", "8", "9">>

RECURSIVE DecimalDigits(_)
\* str(n) for n >= 0
DecimalDigits(n) ==
    IF n < 10 THEN <<DigitChars[n + 1]>>
    ELSE DecimalDigits(n \div 10) \o <<DigitChars[(n % 10) + 1]>>

RECURSIVE ZeroPad(_, _)
\* the '0' fill of a format spec of minimum width w
ZeroPad(s, w) == IF Len(s) >= w THEN s ELSE ZeroPad(<<"0">> \o s, w)

\* mutant of Format06: f"{n}", the width and the zero fill forgotten
Format06_NoPad(n) == DecimalDigits(n)

\* f"{n:06d}"
Format06(n) == ZeroPad(DecimalDigits(n), 6)

\* mutant of OTP_TTL: '+' typed for '*'
OTP_TTL_Plus == 5 + 60

\* 5*60, the lifetime of a code in seconds
OTP_TTL == 5 * 60

\* how far time.time() moves between two steps: onto the expiry of a code
\* issued at the step before, and one second past it
ClockSteps == {OTP_TTL, OTP_TTL + 1}

\* Python truth value of an Optional[str]
Truthy(s) == s # None /\ s # ""

\* request.code values: every code the model generates and the unpadded
\* form of one of them
SubmittedCodes == {Format06(n) : n \in RandDraws} \cup {DecimalDigits(42017)}

\* httpx exceptions the POST or raise_for_status can raise
ProviderErrors ==
    { [kind |-> "HTTPStatusError", status |-> 401, reason |-> "Unauthorized"],
      [kind |-> "ReadTimeout"] }

VARIABLES
    otp_store,        \* dict phone -> [code, expiry]
    TWILIO_ACCOUNT,   \* os.getenv('TWILIO_ACCOUNT_SID')
    TWILIO_TOKEN,     \* os.getenv('TWILIO_AUTH_TOKEN')
    TWILIO_FROM,      \* os.getenv('TWILIO_FROM_NUMBER')
    now,              \* time.time()
    inflight,         \* send_otp coroutines suspended at the POST
    resp,             \* the last handler step: its request, what it did
                      \* and what it answered
    hist              \* per phone: what happened to its codes

vars == <<otp_store, TWILIO_ACCOUNT, TWILIO_TOKEN, TWILIO_FROM, now,
          inflight, resp, hist>>

env == <<TWILIO_ACCOUNT, TWILIO_TOKEN, TWILIO_FROM>>

\* ------------------------------------------------------------ the dict
\* otp_store = {}
EmptyDict == [k \in {} |-> None]

\* mutant of DictPut: d.setdefault(k, v), an entry already there is kept
DictPut_KeepOld(d, k, v) ==
    [x \in DOMAIN d \cup {k} |-> IF x \in DOMAIN d THEN d[x] ELSE v]

\* mutant of DictPut: the put is left for after the await of the POST
DictPut_Deferred(d, k, v) == d

\* d[k] = v
DictPut(d, k, v) == [x \in DOMAIN d \cup {k} |-> IF x = k THEN v ELSE d[x]]

\* mutant of DictDel: d.clear(), every entry goes
DictDel_Clear(d, k) == [raised |-> k \notin DOMAIN d, dict |-> EmptyDict]

\* del d[k]; raises KeyError when k is not a key
DictDel(d, k) ==
    [raised |-> k \notin DOMAIN d,
     dict   |-> [x \in DOMAIN d \ {k} |-> d[x]]]

\* --------------------------------------------------------- the responses
\* raise HTTPException(status_code=..., detail=...); detail is a sequence
\* of the pieces the message is put together from
HTTPException(status, detail) == [status_code |-> status, detail |-> detail]

\* what the server answers when a handler raises anything else
InternalServerError == HTTPException(500, <<"Internal Server Error">>)

\* if TWILIO_ACCOUNT and TWILIO_TOKEN and TWILIO_FROM
TwilioConfigured ==
    Truthy(TWILIO_ACCOUNT) /\ Truthy(TWILIO_TOKEN) /\ Truthy(TWILIO_FROM)

\* f'https://api.twilio.com/2010-04-01/Accounts/{TWILIO_ACCOUNT}/Messages.json'
TwilioUrl(account) ==
    <<"https://api.twilio.com/2010-04-01/Accounts/", account, "/Messages.json">>

\* str(e) of the exception caught at line 122: httpx puts the status line
\* and the request URL into an HTTPStatusError's message
ExcText(e, url) ==
    IF e.kind = "HTTPStatusError"
    THEN <<"Client error '", e.reason, "' for url '">> \o url \o <<"'">>
    ELSE <<"The read operation timed out">>

\* raise HTTPException(status_code=500, detail=f'Twilio send error: {e}')
TwilioSendError(e, account) ==
    HTTPException(500, <<"Twilio send error: ">> \o ExcText(e, TwilioUrl(account)))

\* mutant of PhoneMissing: 'if phone is None'
PhoneMissing_OnlyNone(phone) == phone = None

\* if not phone
PhoneMissing(phone) == ~Truthy(phone)

\* mutant of SendOtpReturn: the code is returned on both paths
SendOtpReturn_AlwaysCode(configured, code) == [sent |-> TRUE, code |-> code]

\* the return statements of send_otp
SendOtpReturn(configured, code) ==
    IF configured THEN [sent |-> TRUE] ELSE [sent |-> TRUE, code |-> code]

\* mutant of AfterPost: the request stays with the provider, as if the POST
\* were made again
AfterPost_Retry(waiting, r) == waiting

\* the await of the POST is over for request r, with an answer or with an
\* exception: the coroutine goes on to its return or raise and posts no more
AfterPost(waiting, r) == waiting (-) SetToBag({r})

\* mutant of StoreAfterSendError: the except branch takes the entry back
StoreAfterSendError_Rollback(store, phone) == DictDel(store, phone).dict

\* the except branch of send_otp leaves otp_store as the put made it
StoreAfterSendError(store, phone) == store

\* mutant of AnswerNoChallenge: otp_store[phone] in place of .get(phone),
\* so a missing key raises KeyError
AnswerNoChallenge_KeyError(store) ==
    [body |-> InternalServerError, store |-> store]

\* rec is None: raise HTTPException(400, 'no otp for phone')
AnswerNoChallenge(store) ==
    [body |-> HTTPException(400, <<"no otp for phone">>), store |-> store]

\* mutant of AnswerExpired: the expired entry is not deleted
AnswerExpired_KeepEntry(store, phone) ==
    [body |-> HTTPException(400, <<"otp expired">>), store |-> store]

\* time.time() > expiry: del otp_store[phone]; raise HTTPException(400,
\* 'otp expired')
AnswerExpired(store, phone) ==
    IF DictDel(store, phone).raised
    THEN [body |-> InternalServerError, store |-> store]
    ELSE [body  |-> HTTPException(400, <<"otp expired">>),
          store |-> DictDel(store, phone).dict]

\* mutant of AnswerMismatch: a wrong code uses the entry up
AnswerMismatch_Consume(store, phone) ==
    [body  |-> HTTPException(400, <<"invalid code">>),
     store |-> DictDel(store, phone).dict]

\* code != saved_code: raise HTTPException(400, 'invalid code')
AnswerMismatch(store, phone) ==
    [body |-> HTTPException(400, <<"invalid code">>), store |-> store]

\* mutant of AnswerVerified: the entry is not deleted on success
AnswerVerified_KeepEntry(store, phone) ==
    [body |-> [verified |-> TRUE], store |-> store]

\* del otp_store[phone]; return {'verified': True}
AnswerVerified(store, phone) ==
    IF DictDel(store, phone).raised
    THEN [body |-> InternalServerError, store |-> store]
    ELSE [body  |-> [verified |-> TRUE],
          store |-> DictDel(store, phone).dict]

\* mutant of VerifyOutcome: the code is compared before the expiry
VerifyOutcome_CodeFirst(store, phone, code, t) ==
    IF phone \notin DOMAIN store THEN AnswerNoChallenge(store)
    ELSE IF code # store[phone].code THEN AnswerMismatch(store, phone)
    ELSE IF t > store[phone].expiry THEN AnswerExpired(store, phone)
    ELSE AnswerVerified(store, phone)

\* the body of verify_otp: the response and the dict it leaves
VerifyOutcome(store, phone, code, t) ==
    IF phone \notin DOMAIN store THEN AnswerNoChallenge(store)
    ELSE IF t > store[phone].expiry THEN AnswerExpired(store, phone)
    ELSE IF code # store[phone].code THEN AnswerMismatch(store, phone)
    ELSE AnswerVerified(store, phone)

\* ------------------------------------------------------------- history
\* last: the code of the phone's latest put (<<>>: none yet); at: the
\* time.time() of that put; gone: what removed that entry ("no": nothing
\* has); prev: the code of the put before it, forgotten once the entry is
\* removed
NoHist == [gone |-> "no", last |-> <<>>, at |-> 0, prev |-> <<>>]

\* after a put of code for the phone at time t
HistIssued(h, code, t) ==
    [gone |-> "no", last |-> code, at |-> t, prev |-> h.last]

\* after a verify_otp answer for the phone
HistVerified(h, body) ==
    IF body = [verified |-> TRUE]
    THEN [gone |-> "verified", last |-> h.last, at |-> h.at, prev |-> <<>>]
    ELSE IF body = HTTPException(400, <<"otp expired">>)
    THEN [gone |-> "expired", last |-> h.last, at |-> h.at, prev |-> <<>>]
    ELSE h

\* a handler step: the request, whether it called random.randint, whether
\* it started the POST, and the response (NoBody while the caller waits)
NoBody == [k \in {} |-> None]

Step(op, phone, code, generated, posted, body) ==
    [op |-> op, phone |-> phone, code |-> code, generated |-> generated,
     posted |-> posted, body |-> body]

\* --------------------------------------------------------------- Init
Init ==
    /\ otp_store = EmptyDict
    /\ TWILIO_ACCOUNT \in AccountValues
    /\ TWILIO_TOKEN \in TokenValues
    /\ TWILIO_FROM \in FromValues
    /\ now = 0
    /\ inflight = EmptyBag
    /\ resp = Step("none", "", <<>>, FALSE, FALSE, NoBody)
    /\ hist = [p \in Phones |-> NoHist]

\* ------------------------------------------------------------ actions
\* POST /send-otp up to its first suspension or its return, with
\* random.randint returning one of draws
SendOtpFrom(phone, draws) ==
    IF PhoneMissing(phone)
    THEN /\ resp' = Step("send_otp", phone, <<>>, FALSE, FALSE,
                         HTTPException(400, <<"phone required">>))
         /\ UNCHANGED <<otp_store, env, now, inflight, hist>>
    ELSE \E n \in draws :
         LET code == Format06(n)
             expiry == now + OTP_TTL
         IN  /\ otp_store' = DictPut(otp_store, phone,
                                     [code |-> code, expiry |-> expiry])
             /\ hist' = [hist EXCEPT ![phone] = HistIssued(@, code, now)]
             /\ IF TwilioConfigured
                THEN /\ BagCardinality(inflight) < MaxInflight
                     /\ inflight' = inflight (+)
                            SetToBag({[phone |-> phone, code |-> code]})
                     /\ resp' = Step("send_otp", phone, <<>>, TRUE, TRUE,
                                     NoBody)
                ELSE /\ resp' = Step("send_otp", phone, <<>>, TRUE, FALSE,
                                     SendOtpReturn(FALSE, code))
                     /\ UNCHANGED inflight
             /\ UNCHANGED <<env, now>>

send_otp(phone) == SendOtpFrom(phone, RandDraws)

\* send_otp resumes: the POST answered and raise_for_status passed
send_otp_sent(r) ==
    /\ BagIn(r, inflight)
    /\ inflight' = AfterPost(inflight, r)
    /\ resp' = Step("send_otp", r.phone, <<>>, FALSE, FALSE,
                    SendOtpReturn(TRUE, r.code))
    /\ UNCHANGED <<otp_store, env, now, hist>>

\* send_otp resumes: the POST or raise_for_status raised e
send_otp_failed(r, e) ==
    /\ BagIn(r, inflight)
    /\ inflight' = AfterPost(inflight, r)
    /\ otp_store' = StoreAfterSendError(otp_store, r.phone)
    /\ resp' = Step("send_otp", r.phone, <<>>, FALSE, FALSE,
                    TwilioSendError(e, TWILIO_ACCOUNT))
    /\ UNCHANGED <<env, now, hist>>

\* POST /verify-otp; it has no await and runs as one step
verify_otp(phone, code) ==
    LET out == VerifyOutcome(otp_store, phone, code, now)
    IN  /\ otp_store' = out.store
        /\ resp' = Step("verify_otp", phone, code, FALSE, FALSE, out.body)
        /\ hist' = [hist EXCEPT ![phone] = HistVerified(@, out.body)]
        /\ UNCHANGED <<env, now, inflight>>

\* the wall clock moves on
Tick ==
    \E d \in ClockSteps :
        /\ now + d <= MaxTime
        /\ now' = now + d
        /\ UNCHANGED <<otp_store, env, inflight, resp, hist>>

SendOtp == \E phone \in Phones : send_otp(phone)

SendOtpSent == \E r \in BagToSet(inflight) : send_otp_sent(r)

SendOtpFailed ==
    \E r \in BagToSet(inflight), e \in ProviderErrors : send_otp_failed(r, e)

VerifyOtp ==
    \E phone \in Phones, code \in SubmittedCodes : verify_otp(phone, code)

Next == SendOtp \/ SendOtpSent \/ SendOtpFailed \/ VerifyOtp \/ Tick

Spec == Init /\ [][Next]_vars

\* -------------------------------------------- with delivery configured
\* the service with all three provider credentials
LiveInit == Init /\ TwilioConfigured

\* the records of the send_otp requests that can wait on the POST
Requests ==
    [phone : {p \in Phones : ~PhoneMissing(p)},
     code : {Format06(n) : n \in RandDraws}]

\* send_otp leaves its await for request r
Resume(r) ==
    send_otp_sent(r) \/ \E e \in ProviderErrors : send_otp_failed(r, e)

\* the POST of a waiting request ends: the provider answers, or httpx
\* raises (its default timeout at the latest), and the event loop resumes
\* the coroutine
SpecLive ==
    LiveInit /\ [][Next]_vars /\ \A r \in Requests : WF_vars(Resume(r))

\* ------------------------------------------- code generation on its own
\* the service without provider credentials, where send_otp returns the
\* code it generated
GenInit == Init /\ TWILIO_ACCOUNT = None /\ TWILIO_TOKEN = "" /\ TWILIO_FROM = None

\* send_otp with random.randint returning any of GenDraws
GenSendOtp == \E phone \in Phones : SendOtpFrom(phone, GenDraws)

GenNext == GenSendOtp

SpecGen == GenInit /\ [][GenNext]_vars

\* ======================================================== the claims
\* the answers of the two endpoints, as the callers are promised them
Verified == [verified |-> TRUE]
NoChallenge == [status_code |-> 400, detail |-> <<"no otp for phone">>]
Expired == [status_code |-> 400, detail |-> <<"otp expired">>]
Mismatch == [status_code |-> 400, detail |-> <<"invalid code">>]
InvalidRequest == [status_code |-> 400, detail |-> <<"phone required">>]

\* the phone has an entry whose expiry time.time() has not passed
Pending(p) == p \in DOMAIN otp_store /\ now <= otp_store[p].expiry

\* C1  Single use.  A verify_otp with the stored code at a time not past
\* the expiry answers verified and removes the entry; a verify_otp for a
\* phone whose code was verified, with that code and no send_otp for the
\* phone since, answers 'no otp for phone'.
C1_SingleUse ==
    [][\A p \in Phones, c \in SubmittedCodes :
         verify_otp(p, c) =>
            /\ (Pending(p) /\ otp_store[p].code = c)
                  => (resp'.body = Verified /\ p \notin DOMAIN otp_store')
            /\ (hist[p].gone = "verified" /\ hist[p].last = c)
                  => resp'.body = NoChallenge]_vars

\* a second verify_otp with the code that was just verified got
\* 'no otp for phone'
C1_Witness ==
    /\ resp.op = "verify_otp"
    /\ resp.body = NoChallenge
    /\ hist[resp.phone].gone = "verified"
    /\ hist[resp.phone].last = resp.code

\* C2 as claimed.  After two send_otp for a phone, while the second entry
\* is pending, verify_otp with the first code answers 'invalid code' and
\* verify_otp with the second code answers verified, whatever the two codes.
C2_AnyPairOfCodes ==
    [][\A p \in Phones, c \in SubmittedCodes :
         (verify_otp(p, c) /\ Pending(p) /\ hist[p].gone = "no"
             /\ hist[p].prev # <<>>) =>
            /\ c = hist[p].prev => resp'.body = Mismatch
            /\ c = hist[p].last => resp'.body = Verified]_vars

\* C2 amended.  The same for two codes that differ; when the generator
\* draws the same code twice, verify_otp with the first code is verify_otp
\* with the stored code and answers verified.
C2_DistinctCodes ==
    [][\A p \in Phones, c \in SubmittedCodes :
         (verify_otp(p, c) /\ Pending(p) /\ hist[p].gone = "no"
             /\ hist[p].prev # <<>>) =>
            /\ (c = hist[p].prev /\ hist[p].prev # hist[p].last)
                  => (resp'.body = Mismatch /\ otp_store' = otp_store)
            /\ c = hist[p].last
                  => (resp'.body = Verified /\ p \notin DOMAIN otp_store')]_vars

\* after a second send_otp with another code, verify_otp with the first
\* code got 'invalid code'
C2_Witness ==
    /\ resp.op = "verify_otp"
    /\ resp.body = Mismatch
    /\ hist[resp.phone].prev = resp.code
    /\ hist[resp.phone].last # resp.code
    /\ resp.phone \in DOMAIN otp_store

\* C3  A verify_otp for a phone whose entry has time.time() > expiry
\* answers 'otp expired' for every code and removes the entry; the next
\* verify_otp for the phone, with no send_otp since, answers 'no otp for
\* phone' for every code.
C3_ExpiredIsReaped ==
    [][\A p \in Phones, c \in SubmittedCodes :
         verify_otp(p, c) =>
            /\ (p \in DOMAIN otp_store /\ now > otp_store[p].expiry)
                  => (resp'.body = Expired /\ p \notin DOMAIN otp_store')
            /\ hist[p].gone = "expired" => resp'.body = NoChallenge]_vars

\* after 'otp expired', a verify_otp with the right code got 'no otp for
\* phone'
C3_Witness ==
    /\ resp.op = "verify_otp"
    /\ resp.body = NoChallenge
    /\ hist[resp.phone].gone = "expired"
    /\ hist[resp.phone].last = resp.code

\* C4  A verify_otp with a code other than the stored one, not past the
\* expiry, answers 'invalid code' and leaves otp_store as it was; in every
\* state, those after such answers too, verify_otp with the stored code not
\* past the expiry answers verified.
C4_MismatchKeepsEntry ==
    [][\A p \in Phones, c \in SubmittedCodes :
         (verify_otp(p, c) /\ Pending(p)) =>
            /\ c # otp_store[p].code
                  => (resp'.body = Mismatch /\ otp_store' = otp_store)
            /\ c = otp_store[p].code => resp'.body = Verified]_vars

\* a wrong code got 'invalid code' and the entry is still there, with the
\* code of the phone's last send_otp
C4_Witness ==
    /\ resp.op = "verify_otp"
    /\ resp.body = Mismatch
    /\ resp.phone \in DOMAIN otp_store
    /\ otp_store[resp.phone].code = hist[resp.phone].last
    /\ otp_store[resp.phone].code # resp.code

\* C5  A verify_otp for a phone with no entry answers 'no otp for phone'
\* and leaves otp_store as it was.
C5_NoEntry ==
    [][\A p \in Phones, c \in SubmittedCodes :
         (verify_otp(p, c) /\ p \notin DOMAIN otp_store) =>
            (resp'.body = NoChallenge /\ otp_store' = otp_store)]_vars

\* a phone no send_otp was made for got 'no otp for phone' while another
\* phone has an entry
C5_Witness ==
    /\ resp.op = "verify_otp"
    /\ resp.body = NoChallenge
    /\ resp.phone # ""
    /\ hist[resp.phone].last = <<>>
    /\ otp_store # EmptyDict

\* a send_otp response that reports a failed delivery
DeliveryFailed(body) ==
    "status_code" \in DOMAIN body /\ body.status_code = 500

\* all three provider credentials are present
AllCredentials ==
    \A v \in {TWILIO_ACCOUNT, TWILIO_TOKEN, TWILIO_FROM} : v \notin {None, ""}

\* C6  When the delivery of a send_otp fails, the caller gets a server
\* error and otp_store is left as it was: an entry that still holds the
\* code of that send_otp and has not expired verifies with that code.
C6_FailureKeepsEntry ==
    [][\A r \in BagToSet(inflight), e \in ProviderErrors :
         send_otp_failed(r, e) =>
            /\ DeliveryFailed(resp'.body)
            /\ otp_store' = otp_store
            /\ (Pending(r.phone) /\ otp_store[r.phone].code = r.code)
                  => VerifyOutcome(otp_store', r.phone, r.code, now').body
                        = Verified]_vars

\* a delivery failed and the entry of the phone is there, unexpired, with
\* the code of the phone's last send_otp
C6_Witness ==
    /\ resp.op = "send_otp"
    /\ DeliveryFailed(resp.body)
    /\ Pending(resp.phone)
    /\ otp_store[resp.phone].code = hist[resp.phone].last

\* C7  A send_otp response for a generated code carries the code exactly
\* when not all three credentials are present, and the code it carries is
\* the generated one; with all three present neither {'sent': True} nor
\* the delivery error has a code field.
C7_CodeOnlyInTestMode ==
    (resp.op = "send_otp" /\ resp.body # NoBody /\ resp.body # InvalidRequest)
       => /\ ("code" \in DOMAIN resp.body) <=> ~AllCredentials
          /\ "code" \in DOMAIN resp.body
                => resp.body.code = hist[resp.phone].last
          /\ AllCredentials
                => (resp.body = [sent |-> TRUE] \/ DeliveryFailed(resp.body))

\* with delivery configured a send_otp returned without the code
C7_Witness ==
    /\ AllCredentials
    /\ resp.op = "send_otp"
    /\ resp.body = [sent |-> TRUE]
    /\ hist[resp.phone].last # <<>>

\* C8 as claimed.  The delivery error a caller gets is the one it would
\* get for any other provider error and any other account id.
C8_ProviderAgnostic ==
    (resp.op = "send_otp" /\ DeliveryFailed(resp.body))
       => \A e \in ProviderErrors, a \in AccountValues :
             resp.body = TwilioSendError(e, a)

\* C9  A send_otp with an empty phone answers 'phone required' and does
\* nothing else: no call of random.randint, no POST, otp_store and the
\* waiting deliveries as they were.
C9_EmptyPhone ==
    [][\A p \in Phones :
         (send_otp(p) /\ p = "") =>
            /\ resp'.body = InvalidRequest
            /\ ~resp'.generated /\ ~resp'.posted
            /\ otp_store' = otp_store
            /\ inflight' = inflight]_vars

\* 'phone required' was answered while otp_store holds entries, none of
\* them for the empty phone
C9_Witness ==
    /\ resp.op = "send_otp"
    /\ resp.phone = ""
    /\ resp.body = InvalidRequest
    /\ otp_store # EmptyDict
    /\ "" \notin DOMAIN otp_store

\* the answer C10 promises for a verify_otp
Decided(store, p, c, t) ==
    IF p \notin DOMAIN store THEN NoChallenge
    ELSE IF t > store[p].expiry THEN Expired
    ELSE IF c # store[p].code THEN Mismatch
    ELSE Verified

\* C10  Every verify_otp answers one of verified, 'no otp for phone',
\* 'otp expired', 'invalid code', decided in that order of tests on the
\* state it starts in; the three reasons differ; no other error is answered
\* in any interleaving of the handlers.
C10_FourOutcomes ==
    /\ [](/\ resp.op = "verify_otp"
                => resp.body \in {Verified, NoChallenge, Expired, Mismatch}
          /\ Cardinality({NoChallenge.detail, Expired.detail,
                          Mismatch.detail}) = 3)
    /\ [][\A p \in Phones, c \in SubmittedCodes :
            verify_otp(p, c) =>
               resp'.body = Decided(otp_store, p, c, now)]_vars

\* a wrong code for an expired entry got 'otp expired', not 'invalid code'
C10_Witness ==
    /\ resp.op = "verify_otp"
    /\ resp.body = Expired
    /\ resp.code # hist[resp.phone].last

\* the decimal digits
Digits == {"0", "1", "2", "3", "4", "5", "6", "7", "8", "9"}

\* the number a digit stands for
DigitValue(ch) == CHOOSE d \in 0 .. 9 : DigitChars[d + 1] = ch

RECURSIVE CodeValue(_)
\* the number a string of digits stands for
CodeValue(s) ==
    IF s = <<>> THEN 0
    ELSE 10 * CodeValue(SubSeq(s, 1, Len(s) - 1)) + DigitValue(s[Len(s)])

\* a string of exactly 6 decimal digits
SixDigits(s) == Len(s) = 6 /\ \A i \in 1 .. 6 : s[i] \in Digits

\* the integers C11 is looked at for: both ends of [0, 999999] and numbers
\* of every length between
ClaimInts == {0, 7, 10, 100, 1000, 42017, 100000, 999999}

\* C11  Every code send_otp stores or returns is a string of exactly 6
\* decimal digits, so the zero-padded form of an integer in [0, 999999];
\* and from every state a send_otp can produce the code of each integer
\* of [0, 999999] looked at, both ends included.
C11_SixDigitCodes ==
    /\ \A p \in DOMAIN otp_store :
          /\ SixDigits(otp_store[p].code)
          /\ CodeValue(otp_store[p].code) \in 0 .. 999999
    /\ (resp.op = "send_otp" /\ "code" \in DOMAIN resp.body)
          => (SixDigits(resp.body.code)
                /\ resp.body.code = otp_store[resp.phone].code)
    /\ \A n \in ClaimInts :
          ENABLED (GenNext /\ resp'.generated
                     /\ CodeValue(otp_store'[resp'.phone].code) = n)

\* the codes of both ends of the range are stored: "000000" and "999999"
C11_Witness ==
    /\ \E p \in DOMAIN otp_store :
          otp_store[p].code = <<"0", "0", "0", "0", "0", "0">>
    /\ \E p \in DOMAIN otp_store :
          otp_store[p].code = <<"9", "9", "9", "9", "9", "9">>

\* what the phone's latest put makes a verify_otp with code c answer at
\* time t, when nothing but verify_otp answers has happened to it since
DecidedOnLatestPut(h, c, t) ==
    IF h.last = <<>> \/ h.gone # "no" THEN NoChallenge
    ELSE IF t > h.at + OTP_TTL THEN Expired
    ELSE IF c # h.last THEN Mismatch
    ELSE Verified

\* C12  In every interleaving of send_otp, its resumptions and verify_otp,
\* an entry of otp_store is whole and is the one the latest put for its
\* phone wrote; every verify_otp answers by that put, and its answer and
\* the removal of the entry come in the same step: the entry goes exactly
\* when the answer is verified or 'otp expired', and nothing else changes.
C12_LatestPutDecides ==
    /\ [](\A p \in DOMAIN otp_store :
             otp_store[p] = [code |-> hist[p].last,
                             expiry |-> hist[p].at + OTP_TTL])
    /\ [][\A p \in Phones, c \in SubmittedCodes :
            verify_otp(p, c) =>
               /\ resp'.body = DecidedOnLatestPut(hist[p], c, now)
               /\ resp'.body \in {Verified, Expired}
                     <=> (p \in DOMAIN otp_store /\ p \notin DOMAIN otp_store')
               /\ resp'.body \notin {Verified, Expired}
                     => otp_store' = otp_store]_vars

\* two send_otp for one phone, with different codes, are both waiting on
\* their POST, and a verify_otp for the phone was answered verified: it
\* was decided on the later put
C12_Witness ==
    /\ resp.op = "verify_otp"
    /\ resp.body = Verified
    /\ resp.code = hist[resp.phone].last
    /\ BagCardinality(inflight) = 2
    /\ \A r \in BagToSet(inflight) : r.phone = resp.phone
    /\ \E r \in BagToSet(inflight) : r.code # resp.code

\* C13  A verify_otp answers verified only for a put that no verify_otp
\* has answered verified for, and uses it up: after it every verify_otp for
\* the phone, whatever the interleaving, answers 'no otp for phone' until a
\* send_otp puts a new entry.  So the verified answers for a phone never
\* outnumber its puts, and of two verify_otp with the right code one is
\* answered verified and the other 'no otp for phone'.
C13_AtMostOnce ==
    /\ [][\A p \in Phones, c \in SubmittedCodes :
            verify_otp(p, c) =>
               /\ resp'.body = Verified
                     => /\ hist[p].gone = "no" /\ hist[p].last = c
                        /\ hist'[p].gone = "verified"
                        /\ p \notin DOMAIN otp_store'
               /\ hist[p].gone = "verified"
                     => (resp'.body = NoChallenge /\ hist'[p] = hist[p])]_vars
    /\ [][\A p \in Phones :
            (hist[p].gone = "verified" /\ hist'[p].gone # "verified")
               => /\ resp'.op = "send_otp" /\ resp'.phone = p
                  /\ resp'.generated
                  /\ p \in DOMAIN otp_store']_vars

\* while the send_otp that stored the code still waits on its POST, the
\* code was verified and a second verify_otp with it got 'no otp for phone'
C13_Witness ==
    /\ resp.op = "verify_otp"
    /\ resp.body = NoChallenge
    /\ hist[resp.phone].gone = "verified"
    /\ BagIn([phone |-> resp.phone, code |-> resp.code], inflight)
    /\ resp.code = hist[resp.phone].last

\* C14  A phone in otp_store holds the entry of its latest put, and no
\* verify_otp has answered verified or 'otp expired' since that put.
C14_StoredIsUnused ==
    \A p \in DOMAIN otp_store :
       /\ hist[p].gone = "no"
       /\ hist[p].last # <<>>
       /\ otp_store[p].code = hist[p].last

\* one phone's entry is stored and unused while the other phone's code
\* was verified and its entry is gone
C14_Witness ==
    \E p \in DOMAIN otp_store, q \in Phones \ DOMAIN otp_store :
       /\ hist[p].gone = "no"
       /\ hist[q].gone = "verified"

\* the record of a send_otp for phone p that waits on its POST with the
\* code now stored for p
Waiting(p, store) == [phone |-> p, code |-> store[p].code]

\* C15  A send_otp with a phone at time t leaves for the phone exactly
\* the code it generated (the one it returns, or hands to the POST) with
\* expiry t + 300, whatever was there before; a verify_otp with the stored
\* code answers verified up to and including the expiry and 'otp expired'
\* after it.
C15_FixedTtl ==
    /\ [][\A p \in Phones :
            (send_otp(p) /\ p # "") =>
               /\ p \in DOMAIN otp_store'
               /\ otp_store'[p].expiry = now + 300
               /\ ~AllCredentials => resp'.body.code = otp_store'[p].code
               /\ AllCredentials
                     => CopiesIn(Waiting(p, otp_store'), inflight')
                           = CopiesIn(Waiting(p, otp_store'), inflight) + 1]_vars
    /\ [][\A p \in Phones, c \in SubmittedCodes :
            (verify_otp(p, c) /\ p \in DOMAIN otp_store
                /\ c = otp_store[p].code) =>
               /\ now <= hist[p].at + 300 => resp'.body = Verified
               /\ now > hist[p].at + 300 => resp'.body = Expired]_vars

\* a code was verified at the very second of its expiry, 300 s after its
\* put, and a send_otp made at that second stored an entry that expires
\* 300 s later
C15_Witness ==
    /\ resp.op = "verify_otp"
    /\ resp.body = Verified
    /\ now = hist[resp.phone].at + 300
    /\ \E q \in DOMAIN otp_store : otp_store[q].expiry = now + 300

\* the handler steps made for phone p
StepFor(p) ==
    \/ send_otp(p)
    \/ \E c \in SubmittedCodes : verify_otp(p, c)
    \/ \E r \in BagToSet(inflight) :
          /\ r.phone = p
          /\ send_otp_sent(r) \/ \E e \in ProviderErrors : send_otp_failed(r, e)

\* C16  No step of send_otp or verify_otp for one phone adds, changes or
\* removes the entry of another phone, in any interleaving.
C16_OtherPhonesUntouched ==
    [][\A p \in Phones :
         StepFor(p) =>
            \A q \in Phones \ {p} :
               /\ q \in DOMAIN otp_store <=> q \in DOMAIN otp_store'
               /\ q \in DOMAIN otp_store => otp_store'[q] = otp_store[q]]_vars

\* one phone's code was verified and its entry removed while the other
\* phone's entry is stored and its send_otp waits on the POST
C16_Witness ==
    /\ resp.op = "verify_otp"
    /\ resp.body = Verified
    /\ \E q \in DOMAIN otp_store :
          /\ q # resp.phone
          /\ BagIn(Waiting(q, otp_store), inflight)

\* C17  The POST is started after the put, and a send_otp that waits on
\* it keeps nothing from the others: its entry is in otp_store from the
\* step that starts the POST; while it waits, a stored, unexpired code of
\* it can be verified, a verify_otp for any phone can be answered, a
\* send_otp for any phone (its own too, which overwrites its entry) can
\* run, and every waiting send_otp can return, in any order.
C17_PostOutsideStore ==
    /\ [][\A p \in Phones :
            (send_otp(p) /\ resp'.posted) =>
               /\ p \in DOMAIN otp_store'
               /\ CopiesIn(Waiting(p, otp_store'), inflight')
                     = CopiesIn(Waiting(p, otp_store'), inflight) + 1]_vars
    /\ [](\A r \in BagToSet(inflight) :
             /\ (Pending(r.phone) /\ otp_store[r.phone].code = r.code)
                   => ENABLED (verify_otp(r.phone, r.code)
                                  /\ resp'.body = Verified
                                  /\ BagIn(r, inflight'))
             /\ \A q \in Phones, c \in SubmittedCodes :
                   ENABLED (verify_otp(q, c) /\ inflight' = inflight)
             /\ BagCardinality(inflight) < MaxInflight
                   => \A q \in Phones \ {""} :
                         ENABLED (send_otp(q) /\ BagIn(r, inflight')
                                     /\ q \in DOMAIN otp_store'
                                     /\ otp_store'[q].expiry = now + OTP_TTL)
             /\ \A r2 \in BagToSet(inflight) :
                   ENABLED (send_otp_sent(r2) /\ (r2 # r => BagIn(r, inflight'))))

\* a send_otp still waits on its POST while its entry was overwritten by a
\* later send_otp for the phone, which waits too, and a verify_otp was
\* answered verified with the later code
C17_Witness ==
    /\ resp.op = "verify_otp"
    /\ resp.body = Verified
    /\ BagIn([phone |-> resp.phone, code |-> resp.code], inflight)
    /\ \E r \in BagToSet(inflight) : r.phone = resp.phone /\ r.code # resp.code

\* C18  An entry leaves otp_store only in a verify_otp step for its phone
\* that answers verified for its code or 'otp expired' past its expiry, and
\* changes only in a send_otp step for its phone; in every other step, the
\* passing of time past its expiry included, it stays as it is.
C18_RemovedOnlyByVerify ==
    [][\A p \in DOMAIN otp_store :
         /\ p \notin DOMAIN otp_store'
               => /\ resp'.op = "verify_otp" /\ resp'.phone = p
                  /\ \/ /\ resp'.body = Verified
                        /\ resp'.code = otp_store[p].code
                     \/ /\ resp'.body = Expired
                        /\ now > otp_store[p].expiry
         /\ (p \in DOMAIN otp_store' /\ otp_store'[p] # otp_store[p])
               => /\ resp'.op = "send_otp" /\ resp'.phone = p
                  /\ resp'.generated]_vars

\* two entries expired; a verify_otp removed one of them with 'otp
\* expired', the other is still stored
C18_Witness ==
    /\ resp.op = "verify_otp"
    /\ resp.body = Expired
    /\ \E p \in DOMAIN otp_store :
          p # resp.phone /\ now > otp_store[p].expiry

\* the caller of a send_otp for the phone got 'sent' or the delivery error
Returned(p) ==
    /\ resp.op = "send_otp" /\ resp.phone = p
    /\ resp.body = [sent |-> TRUE] \/ DeliveryFailed(resp.body)

\* C19  With delivery configured every send_otp that waits on its POST
\* returns in the end, sent or with the delivery error; while it waits the
\* timeout can end the POST and is answered as the delivery error; and a
\* send_otp posts once: leaving the await takes the request away from the
\* provider for good and makes no new POST.
C19_IssueReturns ==
    /\ \A r \in Requests : BagIn(r, inflight) ~> Returned(r.phone)
    /\ [](\A r \in BagToSet(inflight) :
             ENABLED (send_otp_failed(r, [kind |-> "ReadTimeout"])
                         /\ DeliveryFailed(resp'.body)))
    /\ [][\A r \in BagToSet(inflight) :
            Resume(r) =>
               /\ ~resp'.posted
               /\ CopiesIn(r, inflight') = CopiesIn(r, inflight) - 1
               /\ BagCardinality(inflight') = BagCardinality(inflight) - 1]_vars
    /\ [][BagCardinality(inflight') > BagCardinality(inflight)
            => /\ resp'.op = "send_otp" /\ resp'.posted /\ resp'.generated
               /\ BagCardinality(inflight') = BagCardinality(inflight) + 1]_vars

\* a POST timed out and its send_otp returned the delivery error; nothing
\* waits on the provider any more
C19_Witness ==
    /\ resp.op = "send_otp"
    /\ DeliveryFailed(resp.body)
    /\ resp.body.detail = <<"Twilio send error: ", "The read operation timed out">>
    /\ inflight = EmptyBag

=============================================================================
